---- MODULE Spec2Model ----
(***************************************************************************)
(* The e-commerce backend: registration, login, token verification, the    *)
(* cart read, the payment forwarder and the monolithic server's startup.   *)
(*                                                                         *)
(* Two deployments share the users collection of one store:                *)
(*   - the router handlers (app/api/register/route.js, the cart router,    *)
(*     app/api/login/route.js, app/api/payment/route.js) on the User       *)
(*     schema of models/User.js;                                           *)
(*   - the monolithic server of models/Cart.js lines 52-427 on its own     *)
(*     userSchema.                                                         *)
(* A document is kept as the fields the handlers read: email, password.    *)
(* A document's _id is its position in the collection.                     *)
(*                                                                         *)
(* models/Cart.js holds several modules one after the other; each is       *)
(* modelled as the module its comment names, with jwt as required at line  *)
(* 32. Its registration handler is modelled up to the response of lines    *)
(* 259-270 and the catch of lines 289-295; lines 271-287 are the remains   *)
(* of a second copy.                                                       *)
(*                                                                         *)
(* Three specifications: Spec runs every handler one request at a time,    *)
(* SpecRace runs registrations await by await, SpecServer runs the         *)
(* monolithic server from the start of its process.                        *)
(***************************************************************************)
EXTENDS Integers, Sequences, FiniteSets, TLC

\* ------------------------------------------------------------- bounds
MaxUsers == 2
MaxTicks == 2
NumSlots == 2

\* ------------------------------------------------- program constants
OneHour == 1
OneDay == 24
MinPasswordLength == 6
MinNameLength == 2
MinCityLength == 2

\* ------------------------------------------------------------- values
\* JavaScript's undefined, for a string-valued and for an id-valued place.
Undefined == "<undefined>"
UndefinedId == 0

Falsy(v) == v \in {Undefined, ""}

EnvSecretValue == "env-secret"
FallbackSecret == "your-secret-key"
AttackerSecret == "attacker-key"

\* Request inputs.
Emails == {"a@x.com", "A@x.com", "b@x.com"}

\* Registration bodies for the router: a complete one for each address, and
\* one with each field missing.
RouterForms ==
  {[name |-> "Ann", email |-> e, password |-> "secret1"] : e \in Emails}
  \cup {[name |-> Undefined, email |-> "a@x.com", password |-> "secret1"],
        [name |-> "Ann", email |-> Undefined, password |-> "secret1"],
        [name |-> "Ann", email |-> "a@x.com", password |-> Undefined]}

\* Registration bodies for the monolithic server: a complete one for each
\* address, and one for each way a field can be missing or ill-formed.
MonoForm(e) ==
  [name |-> "Ann", phoneNumber |-> "9876543210", city |-> "Pune", email |-> e,
   password |-> "secret1"]

MonoForms ==
  {MonoForm(e) : e \in Emails}
  \cup {[MonoForm("b@x.com") EXCEPT !.name = n] : n \in {Undefined, "A"}}
  \cup {[MonoForm("b@x.com") EXCEPT !.phoneNumber = n] : n \in {Undefined, "12345"}}
  \cup {[MonoForm("b@x.com") EXCEPT !.city = Undefined]}
  \cup {[MonoForm("b@x.com") EXCEPT !.email = n] : n \in {Undefined, "ann.x.com"}}
  \cup {[MonoForm("b@x.com") EXCEPT !.password = n] : n \in {Undefined, "abc"}}

\* Login bodies: each address with the registered and with another password,
\* and one with each field missing.
LoginForms ==
  {[email |-> e, password |-> q] : e \in Emails, q \in {"secret1", "wrong12"}}
  \cup {[email |-> Undefined, password |-> "secret1"],
        [email |-> "a@x.com", password |-> Undefined]}

\* String.prototype.toLowerCase on the addresses above.
ToLowerCase(e) == IF e = "A@x.com" THEN "a@x.com" ELSE e

\* /^[^\s@]+@[^\s@]+\.[^\s@]+$/ and /^\S+@\S+\.\S+$/ on the addresses above.
EmailRegexTest(e) == e \in {"a@x.com", "A@x.com", "b@x.com"}

\* /^[0-9]{10}$/ on the phone numbers above.
PhoneRegexTest(p) == p = "9876543210"

\* ------------------------------------------------------------- bcrypt
\* bcrypt.hash: an opaque string that is never the plaintext.
BcryptHash(p) == "$2a$10$" \o p

\* bcrypt.compare(s, hash): rejects unless both arguments are strings.
BcryptCompare(s, hash) ==
  IF s = Undefined \/ hash = Undefined
  THEN [threw |-> TRUE, match |-> FALSE,
        message |-> "Illegal arguments: " \o (IF s = Undefined THEN "undefined" ELSE "string")
                    \o ", " \o (IF hash = Undefined THEN "undefined" ELSE "string")]
  ELSE [threw |-> FALSE, match |-> hash = BcryptHash(s), message |-> ""]

\* ---------------------------------------------------------------- jwt
NoToken == [kind |-> "none", claim |-> "none", sub |-> UndefinedId, exp |-> 0, sec |-> "none"]
GarbageToken == [kind |-> "garbage", claim |-> "none", sub |-> UndefinedId, exp |-> 0, sec |-> "none"]

\* jwt.sign({<claim>: sub}, secret, {expiresIn: ttl}) at time t.
JwtSign(claim, sub, secret, ttl, t) ==
  IF secret = Undefined
  THEN [threw |-> TRUE, message |-> "secretOrPrivateKey must have a value", token |-> NoToken]
  ELSE [threw |-> FALSE, message |-> "",
        token |-> [kind |-> "jwt", claim |-> claim, sub |-> sub, exp |-> t + ttl, sec |-> secret]]

\* jwt.verify(token, secret) at time t.
JwtVerify(token, secret, t) ==
  IF secret = Undefined
  THEN [threw |-> TRUE, message |-> "secret or public key must be provided"]
  ELSE IF token.kind # "jwt"
  THEN [threw |-> TRUE, message |-> "jwt malformed"]
  ELSE IF token.sec # secret
  THEN [threw |-> TRUE, message |-> "invalid signature"]
  ELSE IF t >= token.exp
  THEN [threw |-> TRUE, message |-> "jwt expired"]
  ELSE [threw |-> FALSE, message |-> ""]

\* decoded.id of a verified token's payload.
DecodedId(token) == IF token.claim = "id" THEN token.sub ELSE UndefinedId

\* -------------------------------------------------------------- state
VARIABLES
  users,      \* the users collection, in insertion order
  secretSet,  \* whether process.env.JWT_SECRET is set
  now,        \* the clock, in hours
  ticks,      \* how many times the clock has advanced
  held,       \* the token the client keeps, NoToken when none
  obs,        \* the request completed in the present hour, and its response
  reqs,       \* registration requests between their lookup and their save
  server      \* the monolithic server process

vars == <<users, secretSet, now, ticks, held, obs, reqs, server>>

EnvSecret == IF secretSet THEN EnvSecretValue ELSE Undefined

Ids == 1..Len(users)
Slots == 1..NumSlots


\* -------------------------------------------------------------- store
NoDoc == [id |-> UndefinedId, email |-> Undefined, password |-> Undefined]
Doc(i) == [id |-> i, email |-> users[i].email, password |-> users[i].password]

\* User.findOne({ email }) on the schema of models/User.js: the filter is the
\* string as given. A filter whose value is undefined matches any document.
FindOneResults(e) ==
  IF e = Undefined
  THEN IF Ids = {} THEN {NoDoc} ELSE {Doc(i) : i \in Ids}
  ELSE IF \E i \in Ids : users[i].email = e
  THEN {Doc(CHOOSE i \in Ids : users[i].email = e)}
  ELSE {NoDoc}

\* The same lookup with a defined address (the registration handler has
\* rejected a missing one before it looks).
FindOne(e) == CHOOSE d \in FindOneResults(e) : TRUE

\* User.findOne({ email }) on the monolithic server's userSchema: the
\* lowercase setter is applied to the filter, and password (select: false)
\* is left out of the document returned.
MonoFindOne(e) ==
  LET d == FindOne(ToLowerCase(e))
  IN  [d EXCEPT !.password = Undefined]

\* The lookup written as findOne({ _id: id }): an undefined id leaves the
\* filter empty, and the first document of the collection is returned.
FindByIdAsFindOne(id) ==
  IF id \in Ids THEN Doc(id) ELSE IF Ids = {} THEN NoDoc ELSE Doc(1)

\* User.findById(id): findById(undefined) is findOne({ _id: null }).
FindById(id) == IF id \in Ids THEN Doc(id) ELSE NoDoc

\* The unique index on email, as the insert of save() meets it.
Insert(doc) ==
  IF \E i \in Ids : users[i].email = doc.email
  THEN [threw |-> TRUE, message |-> "E11000 duplicate key error", users |-> users]
  ELSE [threw |-> FALSE, message |-> "", users |-> Append(users, doc)]

\* save() on the monolithic server's userSchema: setters, validation, the
\* pre('save') hash, then the insert.
MonoSave(name, phoneNumber, city, email, password) ==
  IF \/ Len(name) < MinNameLength
     \/ ~PhoneRegexTest(phoneNumber)
     \/ Len(city) < MinCityLength
     \/ ~EmailRegexTest(ToLowerCase(email))
     \/ Len(password) < MinPasswordLength
  THEN [threw |-> TRUE, message |-> "User validation failed", users |-> users]
  ELSE Insert([email |-> ToLowerCase(email), password |-> BcryptHash(password)])

\* ------------------------------------------------------- observations
NoHeader == [scheme |-> "none", token |-> NoToken]
NoMw == [ran |-> FALSE, next |-> 0, userId |-> UndefinedId, status |-> 0,
         body |-> [message |-> ""]]

\* What a completed request shows: the handler, its input, the middleware's
\* outcome, the response, the document the response was built from, and
\* whether the request added a document.
NoObs ==
  [h |-> "none", kase |-> "none", hdr |-> NoHeader, mw |-> NoMw,
   status |-> 0, body |-> [message |-> ""], from |-> UndefinedId, added |-> FALSE]

Respond(h, status, body) == [NoObs EXCEPT !.h = h, !.status = status, !.body = body]

\* The client keeps the token it is handed when it holds none. The server
\* keeps no record of tokens, so what a request with one token meets does not
\* depend on the other tokens in circulation.
Keep(t) == IF t.kind = "jwt" /\ held = NoToken THEN t ELSE held

\* ------------------------------------- app/api/register/route.js
\* The handler from line 10 on, given what findOne returned at line 15.
\* Result: the response, the collection after it, the token issued.
RouterRegisterResult(name, email, password, existing) ==
  IF Falsy(name) \/ Falsy(email) \/ Falsy(password)
  THEN [status |-> 400, body |-> [message |-> "All fields are required"],
        users |-> users, token |-> NoToken]
  ELSE IF existing.id # UndefinedId
  THEN [status |-> 400, body |-> [message |-> "User already exists"],
        users |-> users, token |-> NoToken]
  ELSE LET saved == Insert([email |-> email, password |-> BcryptHash(password)])
           signed == JwtSign("userId", Len(users) + 1, EnvSecret, OneHour, now)
       IN  IF saved.threw
           THEN [status |-> 500,
                 body |-> [message |-> "An error occurred. Please try again later."],
                 users |-> users, token |-> NoToken]
           ELSE IF signed.threw
           THEN [status |-> 500,
                 body |-> [message |-> "An error occurred. Please try again later."],
                 users |-> saved.users, token |-> NoToken]
           ELSE [status |-> 201, body |-> [success |-> "true", token |-> "<jwt>"],
                 users |-> saved.users, token |-> signed.token]

\* ------------------------- models/Cart.js: app.post('/api/register')
MonoRegisterValidation(name, phoneNumber, city, email, password) ==
  IF Falsy(name) \/ Falsy(phoneNumber) \/ Falsy(city) \/ Falsy(email) \/ Falsy(password)
  THEN "All fields are required"
  ELSE IF ~EmailRegexTest(email) THEN "Please enter a valid email address"
  ELSE IF ~PhoneRegexTest(phoneNumber) THEN "Please enter a valid 10-digit phone number"
  ELSE IF Len(password) < MinPasswordLength
  THEN "Password must be at least 6 characters long"
  ELSE ""

\* The handler, given what findOne returned at line 232.
MonoRegisterResult(name, phoneNumber, city, email, password, existing) ==
  LET invalid == MonoRegisterValidation(name, phoneNumber, city, email, password)
  IN  IF invalid # ""
      THEN [status |-> 400, body |-> [success |-> "false", message |-> invalid],
            users |-> users, token |-> NoToken]
      ELSE IF existing.id # UndefinedId
      THEN [status |-> 400, body |-> [success |-> "false", message |-> "Email already exists"],
            users |-> users, token |-> NoToken]
      ELSE LET saved == MonoSave(name, phoneNumber, city, email, password)
               secret == IF EnvSecret = Undefined THEN FallbackSecret ELSE EnvSecret
               signed == JwtSign("userId", Len(users) + 1, secret, OneHour, now)
           IN  IF saved.threw \/ signed.threw
               THEN [status |-> 500,
                     body |-> [success |-> "false",
                               error |-> "Registration failed. Please try again later."],
                     users |-> saved.users, token |-> NoToken]
               ELSE [status |-> 201,
                     body |-> [success |-> "true", message |-> "Registration successful",
                               user |-> "{id,name,email,city,phoneNumber}", token |-> "<jwt>"],
                     users |-> saved.users, token |-> signed.token]

\* ------------------------------------------- the monolithic server up
MonoServing == server.listening /\ server.connected


\* ---------------------------- models/Cart.js: app.post('/api/login')
MonoLoginResult(email, password) ==
  IF Falsy(email) \/ Falsy(password)
  THEN [status |-> 400, body |-> [success |-> "false", error |-> "Email and password are required"],
        token |-> NoToken, from |-> UndefinedId]
  ELSE LET user == MonoFindOne(email)
           cmp == BcryptCompare(password, user.password)
           signed == JwtSign("userId", user.id, EnvSecret, OneDay, now)
           failed == [status |-> 500,
                      body |-> [success |-> "false",
                                error |-> "Login failed. Please try again later."],
                      token |-> NoToken, from |-> UndefinedId]
           denied == [status |-> 401,
                      body |-> [success |-> "false", error |-> "Invalid email or password"],
                      token |-> NoToken, from |-> UndefinedId]
       IN  IF user.id = UndefinedId THEN denied
           ELSE IF cmp.threw THEN failed
           ELSE IF ~cmp.match THEN denied
           ELSE IF signed.threw THEN failed
           ELSE [status |-> 200,
                 body |-> [success |-> "true", message |-> "Login successful",
                           token |-> "<jwt>", user |-> "{id,name,email,phoneNumber,city}"],
                 token |-> signed.token, from |-> user.id]

\* ------------------------------------------ app/api/login/route.js
\* connected: whether connectMongo() resolved; user: what findOne returned.
StandaloneLoginResult(connected, password, user) ==
  LET cmp == BcryptCompare(password, user.password)
      signed == JwtSign("id", user.id, EnvSecret, OneDay, now)
  IN  IF ~connected
      THEN [status |-> 500, body |-> [error |-> "connect ECONNREFUSED"],
            token |-> NoToken, from |-> UndefinedId]
      ELSE IF user.id = UndefinedId
      THEN [status |-> 404, body |-> [message |-> "User not found"],
            token |-> NoToken, from |-> UndefinedId]
      ELSE IF cmp.threw
      THEN [status |-> 500, body |-> [error |-> cmp.message],
            token |-> NoToken, from |-> UndefinedId]
      ELSE IF ~cmp.match
      THEN [status |-> 401, body |-> [message |-> "Invalid credentials"],
            token |-> NoToken, from |-> UndefinedId]
      ELSE IF signed.threw
      THEN [status |-> 500, body |-> [error |-> signed.message],
            token |-> NoToken, from |-> UndefinedId]
      ELSE [status |-> 200, body |-> [token |-> "<jwt>"],
            token |-> signed.token, from |-> user.id]

\* ------------------------------------ models/Cart.js: authMiddleware
\* req.headers.authorization?.split(' ')[1]
ExtractToken(hdr) == IF hdr.scheme = "Bearer" THEN hdr.token ELSE NoToken

AuthMiddleware(hdr) ==
  LET token == ExtractToken(hdr)
      v == JwtVerify(token, EnvSecret, now)
  IN  IF token.kind = "none"
      THEN [ran |-> TRUE, next |-> 0, userId |-> UndefinedId, status |-> 401,
            body |-> [message |-> "No token, authorization denied"]]
      ELSE IF v.threw
      THEN [ran |-> TRUE, next |-> 0, userId |-> UndefinedId, status |-> 401,
            body |-> [message |-> "Token is not valid"]]
      ELSE [ran |-> TRUE, next |-> 1, userId |-> DecodedId(token), status |-> 0,
            body |-> [message |-> ""]]

\* ----------------------------------------- the cart router: GET /
CartResult(storeUp, userId) ==
  LET user == FindById(userId)
  IN  IF ~storeUp
      THEN [status |-> 500,
            body |-> [message |-> "Error fetching cart", error |-> "<the exception object>"],
            from |-> UndefinedId]
      ELSE IF user.id = UndefinedId
      THEN [status |-> 404, body |-> [message |-> "User not found"], from |-> UndefinedId]
      ELSE [status |-> 200, body |-> [cart |-> "[]"], from |-> user.id]

\* ---------------------------------------- app/api/payment/route.js
StripeTokens == {Undefined, "tok_visa", "tok_chargeDeclined"}
Amounts == {0, 500}

PaymentResult(parsed, token, amount) ==
  IF ~parsed
  THEN [status |-> 500, body |-> [success |-> "false", message |-> "Unexpected end of JSON input"]]
  ELSE IF Falsy(token) \/ amount = 0
  THEN [status |-> 400, body |-> [success |-> "false", message |-> "Missing token or amount."]]
  ELSE IF token = "tok_visa"
  THEN [status |-> 200, body |-> [success |-> "true", data |-> "ch_1"]]
  ELSE [status |-> 500, body |-> [success |-> "false", message |-> "Your card was declined."]]

\* ---------------------- models/Cart.js: app.get('/api/user/:email')
MonoGetUserResult(email) ==
  LET user == MonoFindOne(email)
  IN  IF user.id = UndefinedId
      THEN [status |-> 404, body |-> [success |-> "false", error |-> "User not found"],
            from |-> UndefinedId]
      ELSE [status |-> 200, body |-> [success |-> "true", data |-> "{name,email,city,phoneNumber}"],
            from |-> user.id]

\* ------------------------------------------------ what a login meets
\* The case a login request is, read off the collection and not off the
\* handler: its address is in no document (whatever the letter case), or
\* a document has exactly its address and another password, or the same.
LoginCase(email, password) ==
  IF Falsy(email) \/ Falsy(password) THEN "other"
  ELSE IF ~\E i \in Ids : ToLowerCase(users[i].email) = ToLowerCase(email)
  THEN "unregistered"
  ELSE IF \E i \in Ids : users[i].email = email /\ users[i].password = BcryptHash(password)
  THEN "correct"
  ELSE IF \E i \in Ids : users[i].email = email
  THEN "wrongPassword"
  ELSE "other"


\* The case a registration request is when it completes: rejected by the
\* handler's own validation, or valid with its address (as its schema
\* stores it) already in a document, or valid with a new address.
RegisterCase(invalid, email) ==
  IF invalid THEN "invalid"
  ELSE IF \E i \in Ids : users[i].email = email THEN "duplicate"
  ELSE "fresh"

\* ------------------------------------------------------------ actions
\* POST /register of the router, lookup and save in one step.
RouterRegister(name, email, password) ==
  LET r == RouterRegisterResult(name, email, password, FindOne(email))
      invalid == Falsy(name) \/ Falsy(email) \/ Falsy(password)
  IN  /\ Len(r.users) <= MaxUsers
      /\ users' = r.users
      /\ held' = Keep(r.token)
      /\ obs' = [Respond("routerRegister", r.status, r.body) EXCEPT
                   !.kase = RegisterCase(invalid, email), !.added = (r.users # users)]
      /\ UNCHANGED <<secretSet, now, ticks, reqs, server>>

\* POST /api/register of the monolithic server, lookup and save in one step.
MonoRegister(name, phoneNumber, city, email, password) ==
  LET r == MonoRegisterResult(name, phoneNumber, city, email, password, MonoFindOne(email))
      invalid == MonoRegisterValidation(name, phoneNumber, city, email, password) # ""
  IN  /\ MonoServing
      /\ Len(r.users) <= MaxUsers
      /\ users' = r.users
      /\ held' = Keep(r.token)
      /\ obs' = [Respond("monoRegister", r.status, r.body) EXCEPT
                   !.kase = RegisterCase(invalid, ToLowerCase(email)),
                   !.added = (r.users # users)]
      /\ UNCHANGED <<secretSet, now, ticks, reqs, server>>

\* POST /api/login of the monolithic server.
MonoLogin(email, password) ==
  LET r == MonoLoginResult(email, password)
  IN  /\ MonoServing
      /\ held' = Keep(r.token)
      /\ obs' = [Respond("monoLogin", r.status, r.body) EXCEPT
                   !.kase = LoginCase(email, password), !.from = r.from]
      /\ UNCHANGED <<users, secretSet, now, ticks, reqs, server>>

\* POST of app/api/login/route.js.
StandaloneLogin(connected, email, password) ==
  \E user \in FindOneResults(email) :
    LET r == StandaloneLoginResult(connected, password, user)
    IN  /\ held' = Keep(r.token)
        /\ obs' = [Respond("login", r.status, r.body) EXCEPT
                     !.kase = IF connected THEN LoginCase(email, password) ELSE "other",
                     !.from = r.from]
        /\ UNCHANGED <<users, secretSet, now, ticks, reqs, server>>

\* The Authorization headers a client may send.
Headers ==
  {NoHeader, [scheme |-> "Bearer", token |-> NoToken], [scheme |-> "Bearer", token |-> GarbageToken]}
  \cup {[scheme |-> s, token |-> held] : s \in {"Bearer", "raw"}}
  \cup {[scheme |-> "Bearer",
         token |-> [kind |-> "jwt", claim |-> "id", sub |-> i, exp |-> now + OneDay,
                    sec |-> AttackerSecret]] : i \in Ids}

\* GET / of the cart router: authMiddleware, then the handler if next() ran.
GetCart(hdr, storeUp) ==
  LET mw == AuthMiddleware(hdr)
      r == CartResult(storeUp, mw.userId)
  IN  /\ obs' = IF mw.next = 1
                THEN [Respond("cart", r.status, r.body) EXCEPT
                        !.hdr = hdr, !.mw = mw, !.from = r.from]
                ELSE [Respond("cart", mw.status, mw.body) EXCEPT
                        !.hdr = hdr, !.mw = mw]
      /\ UNCHANGED <<users, secretSet, now, ticks, held, reqs, server>>

\* POST of app/api/payment/route.js.
Payment(parsed, token, amount) ==
  LET r == PaymentResult(parsed, token, amount)
  IN  /\ obs' = Respond("payment", r.status, r.body)
      /\ UNCHANGED <<users, secretSet, now, ticks, held, reqs, server>>

\* GET /api/user/:email of the monolithic server.
MonoGetUser(email) ==
  LET r == MonoGetUserResult(email)
  IN  /\ MonoServing
      /\ obs' = [Respond("monoGetUser", r.status, r.body) EXCEPT !.from = r.from]
      /\ UNCHANGED <<users, secretSet, now, ticks, held, reqs, server>>

\* GET /api/health of the monolithic server.
MonoHealth ==
  /\ server.listening
  /\ obs' = Respond("monoHealth", 200, [success |-> "true", message |-> "Server is running"])
  /\ UNCHANGED <<users, secretSet, now, ticks, held, reqs, server>>

\* Time passes: an hour or a day.
Tick(d) ==
  /\ ticks < MaxTicks
  /\ now' = now + d
  /\ ticks' = ticks + 1
  /\ obs' = NoObs
  /\ UNCHANGED <<users, secretSet, held, reqs, server>>

\* The client drops its token.
ForgetToken ==
  /\ held # NoToken
  /\ held' = NoToken
  /\ UNCHANGED <<users, secretSet, now, ticks, obs, reqs, server>>

\* ------------------------------- registration, await by await
\* A slot with no request in it.
IdleReq == [pc |-> "idle", route |-> "none", form |-> [email |-> Undefined], existing |-> NoDoc]

\* A registration handler up to its first await: validation, then the
\* lookup of line 15. A body that fails validation is answered at once.
RouterRegLookup(s, f) ==
  LET invalid == Falsy(f.name) \/ Falsy(f.email) \/ Falsy(f.password)
      r == RouterRegisterResult(f.name, f.email, f.password, NoDoc)
  IN  /\ reqs[s].pc = "idle"
      /\ reqs' = IF invalid THEN reqs
                 ELSE [reqs EXCEPT ![s] = [pc |-> "found", route |-> "router", form |-> f,
                                           existing |-> FindOne(f.email)]]
      /\ obs' = IF invalid
                THEN [Respond("routerRegister", r.status, r.body) EXCEPT !.kase = "invalid"]
                ELSE obs
      /\ UNCHANGED <<users, secretSet, now, ticks, held, server>>

\* The rest of the handler, from what the lookup returned: lines 16-36.
RouterRegSave(s) ==
  LET f == reqs[s].form
      r == RouterRegisterResult(f.name, f.email, f.password, reqs[s].existing)
  IN  /\ reqs[s].pc = "found" /\ reqs[s].route = "router"
      /\ Len(r.users) <= MaxUsers
      /\ users' = r.users
      /\ held' = Keep(r.token)
      /\ obs' = [Respond("routerRegister", r.status, r.body) EXCEPT
                   !.kase = RegisterCase(FALSE, f.email), !.added = (r.users # users)]
      /\ reqs' = [reqs EXCEPT ![s] = IdleReq]
      /\ UNCHANGED <<secretSet, now, ticks, server>>

\* The monolithic server's handler up to the lookup of line 232.
MonoRegLookup(s, f) ==
  LET invalid == MonoRegisterValidation(f.name, f.phoneNumber, f.city, f.email, f.password) # ""
      r == MonoRegisterResult(f.name, f.phoneNumber, f.city, f.email, f.password, NoDoc)
  IN  /\ MonoServing
      /\ reqs[s].pc = "idle"
      /\ reqs' = IF invalid THEN reqs
                 ELSE [reqs EXCEPT ![s] = [pc |-> "found", route |-> "mono", form |-> f,
                                           existing |-> MonoFindOne(f.email)]]
      /\ obs' = IF invalid
                THEN [Respond("monoRegister", r.status, r.body) EXCEPT !.kase = "invalid"]
                ELSE obs
      /\ UNCHANGED <<users, secretSet, now, ticks, held, server>>

\* The rest of the monolithic server's handler: lines 233-295.
MonoRegSave(s) ==
  LET f == reqs[s].form
      r == MonoRegisterResult(f.name, f.phoneNumber, f.city, f.email, f.password,
                              reqs[s].existing)
  IN  /\ reqs[s].pc = "found" /\ reqs[s].route = "mono"
      /\ Len(r.users) <= MaxUsers
      /\ users' = r.users
      /\ held' = Keep(r.token)
      /\ obs' = [Respond("monoRegister", r.status, r.body) EXCEPT
                   !.kase = RegisterCase(FALSE, ToLowerCase(f.email)),
                   !.added = (r.users # users)]
      /\ reqs' = [reqs EXCEPT ![s] = IdleReq]
      /\ UNCHANGED <<secretSet, now, ticks, server>>

\* -------------------- models/Cart.js: the monolithic server's process
\* The module is evaluated: mongoose.connect is called at line 105 and
\* app.listen at line 415, before any promise callback can run.
StartServer ==
  /\ server.phase = "boot"
  /\ server' = [server EXCEPT !.phase = "connecting", !.listenCalls = @ + 1,
                              !.listening = TRUE]
  /\ UNCHANGED <<users, secretSet, now, ticks, held, obs, reqs>>

\* The connection succeeds: the callback of line 106 calls app.listen on the
\* port that line 415 has bound. The new server's 'error' event (EADDRINUSE)
\* has no listener under Express 4 and ends the process; Express 5 hands it
\* to the callback, which ignores it.
ConnectOk(uncaught) ==
  /\ server.phase = "connecting"
  /\ server' = IF uncaught
               THEN [server EXCEPT !.phase = "exited", !.listenCalls = @ + 1,
                                   !.connected = TRUE, !.listening = FALSE]
               ELSE [server EXCEPT !.phase = "connected", !.listenCalls = @ + 1,
                                   !.connected = TRUE]
  /\ UNCHANGED <<users, secretSet, now, ticks, held, obs, reqs>>

\* The connection fails: the callback of line 114 sets the timer.
ConnectFail ==
  /\ server.phase = "connecting"
  /\ server' = [server EXCEPT !.phase = "waiting"]
  /\ UNCHANGED <<users, secretSet, now, ticks, held, obs, reqs>>

\* The timer fires: line 118 calls mongoose.connect again, with no callback.
RetryConnect ==
  /\ server.phase = "waiting"
  /\ server' = [server EXCEPT !.phase = "reconnecting"]
  /\ UNCHANGED <<users, secretSet, now, ticks, held, obs, reqs>>

RetryOk ==
  /\ server.phase = "reconnecting"
  /\ server' = [server EXCEPT !.phase = "connected", !.connected = TRUE]
  /\ UNCHANGED <<users, secretSet, now, ticks, held, obs, reqs>>

\* The second connection fails: its rejection has no handler, which ends the
\* process on a Node.js that throws on unhandled rejections and is only
\* warned about on an older one.
RetryFail(uncaught) ==
  /\ server.phase = "reconnecting"
  /\ server' = IF uncaught
               THEN [server EXCEPT !.phase = "exited", !.listening = FALSE]
               ELSE [server EXCEPT !.phase = "failed"]
  /\ UNCHANGED <<users, secretSet, now, ticks, held, obs, reqs>>

\* SIGTERM: lines 420-426 close the server of line 415 and exit.
Sigterm ==
  /\ server.phase \notin {"boot", "exited"}
  /\ server' = [server EXCEPT !.phase = "exited", !.listening = FALSE]
  /\ UNCHANGED <<users, secretSet, now, ticks, held, obs, reqs>>

\* ------------------------------------------------------ specification
BootServer == [phase |-> "boot", listenCalls |-> 0, listening |-> FALSE, connected |-> FALSE]

\* The monolithic server with its startup behind it: listening since line
\* 415, the store connected by the retry of line 118.
ServingServer == [phase |-> "connected", listenCalls |-> 1, listening |-> TRUE, connected |-> TRUE]

InitWith(srv) ==
  /\ users = <<>>
  /\ secretSet \in BOOLEAN
  /\ now = 0
  /\ ticks = 0
  /\ held = NoToken
  /\ obs = NoObs
  /\ reqs = [s \in Slots |-> IdleReq]
  /\ server = srv

Init == InitWith(ServingServer)

Next ==
  \/ \E parsed \in BOOLEAN, token \in StripeTokens, amount \in Amounts :
       Payment(parsed, token, amount)
  \/ \E f \in RouterForms : RouterRegister(f.name, f.email, f.password)
  \/ \E f \in MonoForms : MonoRegister(f.name, f.phoneNumber, f.city, f.email, f.password)
  \/ \E f \in LoginForms : MonoLogin(f.email, f.password)
  \/ \E connected \in BOOLEAN :
       \E f \in (IF connected THEN LoginForms ELSE {[email |-> "a@x.com", password |-> "secret1"]}) :
         StandaloneLogin(connected, f.email, f.password)
  \/ \E hdr \in Headers, storeUp \in BOOLEAN : GetCart(hdr, storeUp)
  \/ \E email \in Emails : MonoGetUser(email)
  \/ MonoHealth
  \/ \E d \in {OneHour, OneDay} : Tick(d)
  \/ ForgetToken

Spec == Init /\ [][Next]_vars


\* Registrations whose lookups and saves interleave.
NextRace ==
  \/ \E s \in Slots, f \in RouterForms : RouterRegLookup(s, f)
  \/ \E s \in Slots : RouterRegSave(s)
  \/ \E s \in Slots, f \in MonoForms : MonoRegLookup(s, f)
  \/ \E s \in Slots : MonoRegSave(s)

SpecRace == Init /\ [][NextRace]_vars

\* The monolithic server from the start of its process.
InitServer == InitWith(BootServer)

NextServer ==
  \/ StartServer
  \/ \E uncaught \in BOOLEAN : ConnectOk(uncaught)
  \/ ConnectFail
  \/ RetryConnect
  \/ RetryOk
  \/ \E uncaught \in BOOLEAN : RetryFail(uncaught)
  \/ Sigterm
  \/ \E f \in MonoForms : MonoRegister(f.name, f.phoneNumber, f.city, f.email, f.password)
  \/ \E f \in LoginForms : MonoLogin(f.email, f.password)
  \/ \E email \in Emails : MonoGetUser(email)
  \/ MonoHealth

SpecServer == InitServer /\ [][NextServer]_vars


\* ------------------------------------------------------------- claims
\* A token one of the handlers signed (a client holds no other), as against
\* one signed with a key of the sender's own.
IssuedToken(t) == t.kind = "jwt" /\ t.sec \in {EnvSecretValue, FallbackSecret}

\* The token authMiddleware read from the observed request's header.
Presented == ExtractToken(obs.hdr)

\* C1: a token issued for user U and presented to authMiddleware before its
\* expiry makes the middleware call next() with req.userId equal to U's id;
\* presented at or after its expiry it is answered 401 and next() is not
\* called.
C1_IssuedTokenResolvesToItsUser ==
  (obs.mw.ran /\ IssuedToken(Presented)) =>
    IF now < Presented.exp
    THEN obs.mw.next = 1 /\ obs.mw.userId = Presented.sub
    ELSE obs.mw.next = 0 /\ obs.mw.status = 401

\* C2: the cart in a 200 response to GET cart was read from the document of
\* the user the presented token was issued for, and the token is one a
\* handler issued.
C2_CartIsTheTokenUsersCart ==
  (obs.h = "cart" /\ obs.status = 200) =>
    /\ IssuedToken(Presented)
    /\ obs.from = Presented.sub
    /\ obs.from \in Ids

\* C2's case: with two users registered, a token issued for the second one
\* is answered 200.
C2_Witness ==
  /\ obs.h = "cart" /\ obs.status = 200
  /\ Len(users) = 2
  /\ IssuedToken(Presented) /\ Presented.sub = 2

\* C3: a valid registration that completes when a document already has its
\* address is answered 400 'already exists', and no two documents have the
\* same address.
C3_SecondRegistrationConflicts ==
  /\ (obs.h \in {"routerRegister", "monoRegister"} /\ obs.kase = "duplicate") =>
       /\ obs.status = 400
       /\ obs.body.message \in {"User already exists", "Email already exists"}
  /\ \A i, j \in Ids : i # j => users[i].email # users[j].email

\* C4: in each login handler, a login with an unregistered address and a
\* login with a registered address and a wrong password are both answered
\* 401 with the same body keys.
C4_LoginFailuresAlike ==
  (obs.h \in {"login", "monoLogin"} /\ obs.kase \in {"unregistered", "wrongPassword"}) =>
    /\ obs.status = 401
    /\ DOMAIN obs.body = (IF obs.h = "login" THEN {"message"} ELSE {"success", "error"})

\* C5: for a user registered through the monolithic server, a login with the
\* registered address and password is answered 200 with success true and a
\* token, and one with another password 401 with success false.
C5_MonoLoginAfterRegister ==
  /\ (obs.h = "monoLogin" /\ obs.kase = "correct") =>
       obs.status = 200 /\ obs.body.success = "true" /\ "token" \in DOMAIN obs.body
  /\ (obs.h = "monoLogin" /\ obs.kase = "wrongPassword") =>
       obs.status = 401 /\ obs.body.success = "false"

\* C6: no two documents have addresses that differ only in letter case.
C6_EmailsUniqueIgnoringCase ==
  \A i, j \in Ids : i # j => ToLowerCase(users[i].email) # ToLowerCase(users[j].email)

\* C7: authMiddleware either calls next() once with an identity on the
\* request and sends nothing, or sends one 401 and does not call next(); it
\* sends the 401 when there is no token and when the token is malformed,
\* signed with another key, or expired.
C7_MiddlewareNextOrReject ==
  obs.mw.ran =>
    /\ \/ obs.mw.next = 1 /\ obs.mw.userId # UndefinedId /\ obs.mw.status = 0
       \/ obs.mw.next = 0 /\ obs.mw.status = 401
    /\ (\/ Presented.kind # "jwt"
        \/ ~IssuedToken(Presented)
        \/ now >= Presented.exp) => (obs.mw.next = 0 /\ obs.mw.status = 401)

\* The message and error texts the handlers write as literals.
FixedTexts ==
  {"All fields are required", "User already exists",
   "An error occurred. Please try again later.", "Email already exists",
   "Please enter a valid email address", "Please enter a valid 10-digit phone number",
   "Password must be at least 6 characters long",
   "Registration failed. Please try again later.", "Email and password are required",
   "Invalid email or password", "Login failed. Please try again later.",
   "User not found", "Invalid credentials", "No token, authorization denied",
   "Token is not valid", "Error fetching cart", "Missing token or amount.",
   "Failed to fetch user", "Internal server error"}

\* C8: every error response has success false, a message or an error, and
\* nothing in it but texts the handler fixes.
C8_ErrorEnvelope ==
  obs.status >= 400 =>
    /\ "success" \in DOMAIN obs.body
    /\ obs.body.success = "false"
    /\ DOMAIN obs.body \cap {"message", "error"} # {}
    /\ \A k \in DOMAIN obs.body \ {"success"} : obs.body[k] \in FixedTexts

\* C9: a registration adds a document if and only if it is answered 201
\* with a token.
C9_RegistrationAllOrNothing ==
  obs.h \in {"routerRegister", "monoRegister"} =>
    (obs.added <=> (obs.status = 201 /\ "token" \in DOMAIN obs.body))

\* C10: the monolithic server listens only once the store connection has
\* succeeded, and listen is called at most once.
C10_ListenAfterConnect ==
  /\ server.listening => server.connected
  /\ server.listenCalls <= 1

====
